---- MODULE Spec2Model ----
(***************************************************************************)
(* The profiler-event aggregation pass of libtorch_demo/qwen3_infer.cpp:   *)
(* aggregate_kernel_stats walks every thread's event list, pairs each      *)
(* PopRange with the PushRange on top of a per-thread stack, and folds the *)
(* resulting interval into a name -> KernelStat map.                       *)
(*                                                                         *)
(* Timestamps and durations are integer microseconds.  An event is a       *)
(* record [kind, name, t, shapes]; shapes is the sequence of input shapes  *)
(* (each a sequence of dimensions) LegacyEvent::shapes() returns.          *)
(***************************************************************************)
EXTENDS Integers, Sequences, FiniteSets, TLC

VARIABLES
  event_lists,  \* the per-thread streams, as far as the pass has read them
  stats,        \* the name -> KernelStat map the pass fills
  stack,        \* the ActiveRange stack of the stream being read
  log,          \* history: the intervals resolved so far, in the order folded
  pc,           \* "run" while the loops run, "done" once the function returned;
                \* in main: "generate", "loop_done", "collected", "written",
                \* "exit" (return 0), "failed" (forward threw: return 2 or
                \* 3) and "write_failed" (write_tokens threw: return 3)
  loaded,           \* main: the tokens load_tokens returned
  prompt_tokens,    \* main: prompt_tokens
  step,             \* main: the loop counter of the generation loop
  max_new_tokens,   \* main: max_new_tokens
  eos_token,        \* main: eos_token
  delivered,        \* main: the profiler guard's callback has run
  agg_calls,        \* history: how often main called aggregate_kernel_stats
  out               \* what was written to std::cout, line by line

passvars == <<event_lists, stats, stack, log>>
genvars == <<loaded, prompt_tokens, step, max_new_tokens, eos_token>>
mainvars == <<genvars, delivered, agg_calls>>

vars == <<passvars, pc, mainvars, out>>

(***************************************************************************)
(* Bounds of the model.                                                    *)
(***************************************************************************)
MaxThreads == 2
MaxEvents == 4
MaxEventsNest == 6
MaxEventsTiming == 6
MaxEventsShape == 6

(***************************************************************************)
(* The events the streams are drawn from.                                  *)
(***************************************************************************)
Names == {"A", "B"}

NoShapes == << >>

MkEvent(kind, name, t, shapes) ==
  [kind |-> kind, name |-> name, t |-> t, shapes |-> shapes]

PushEvents(names, times, shapeSet) ==
  {MkEvent("PushRange", n, t, s) : n \in names, t \in times, s \in shapeSet}

PopEvents(names, times) ==
  {MkEvent("PopRange", n, t, NoShapes) : n \in names, t \in times}

MarkEvents == {MkEvent("Mark", "__start_profile", 0, NoShapes)}

(***************************************************************************)
(* Helpers on sequences and maps.                                          *)
(***************************************************************************)
RECURSIVE SumLen(_)
SumLen(lists) ==
  IF lists = << >> THEN 0 ELSE Len(Head(lists)) + SumLen(Tail(lists))

EmptyMap == [n \in {} |-> 0]

MapPut(m, k, v) == [n \in (DOMAIN m) \cup {k} |-> IF n = k THEN v ELSE m[n]]

(***************************************************************************)
(* KernelStat and format_shape.                                            *)
(***************************************************************************)
KernelStat ==
  [total_us |-> 0, self_us |-> 0, max_us |-> 0, calls |-> 0, sample_shape |-> ""]

RECURSIVE JoinDims(_, _)
JoinDims(dims, i) ==
  IF i > Len(dims) THEN ""
  ELSE (IF i # 1 THEN "x" ELSE "") \o ToString(dims[i]) \o JoinDims(dims, i + 1)

format_shape(shapes) ==
  IF shapes = << >> \/ Head(shapes) = << >> THEN ""
  ELSE "[" \o JoinDims(Head(shapes), 1) \o "]"

(***************************************************************************)
(* The body of the PopRange branch, piece by piece.                        *)
(***************************************************************************)
cpuElapsedUs(start, end) == end.t - start.t

InclusiveUs_NoClamp(start, event) == cpuElapsedUs(start, event)

InclusiveUs(start, event) ==
  LET inclusive_us == cpuElapsedUs(start, event)
  IN IF inclusive_us < 0 THEN 0 ELSE inclusive_us

\* Lines 100-103 with the children's time not taken off.
ExclusiveUs_WithChildren(inclusive_us, child_time_us) == inclusive_us

ExclusiveUs(inclusive_us, child_time_us) ==
  LET exclusive_us == inclusive_us - child_time_us
  IN IF exclusive_us < 0 THEN 0 ELSE exclusive_us

StackBack_Front(s) == s[1]

StackBack(s) == s[Len(s)]

\* Line 95 left out: the frame stays on the stack.
PopBack_Kept(s) == s

PopBack(s) == SubSeq(s, 1, Len(s) - 1)

PushFrame(s, idx) == Append(s, [start |-> idx, child_time_us |-> 0])

\* Line 110 with std::min in the place of std::max.
Max_Smaller(a, b) == IF a < b THEN a ELSE b

Max(a, b) == IF a < b THEN b ELSE a

StatOf(st, kernel_name) ==
  IF kernel_name \in DOMAIN st THEN st[kernel_name] ELSE KernelStat

KernelName(start, event) == start.name

\* Line 110 without std::max: the last inclusive time is kept.
FoldStat_LastIsMax(stat, inclusive_us, exclusive_us, shapes) ==
  [calls        |-> stat.calls + 1,
   total_us     |-> stat.total_us + inclusive_us,
   self_us      |-> stat.self_us + exclusive_us,
   max_us       |-> inclusive_us,
   sample_shape |-> IF stat.sample_shape = "" THEN format_shape(shapes)
                    ELSE stat.sample_shape]

\* Line 107 left out: the call is not counted.
FoldStat_NotCounted(stat, inclusive_us, exclusive_us, shapes) ==
  [calls        |-> stat.calls,
   total_us     |-> stat.total_us + inclusive_us,
   self_us      |-> stat.self_us + exclusive_us,
   max_us       |-> Max(stat.max_us, inclusive_us),
   sample_shape |-> IF stat.sample_shape = "" THEN format_shape(shapes)
                    ELSE stat.sample_shape]

\* Lines 111-113 without the test: the shape of the last interval is kept.
FoldStat_LastShape(stat, inclusive_us, exclusive_us, shapes) ==
  [calls        |-> stat.calls + 1,
   total_us     |-> stat.total_us + inclusive_us,
   self_us      |-> stat.self_us + exclusive_us,
   max_us       |-> Max(stat.max_us, inclusive_us),
   sample_shape |-> format_shape(shapes)]

\* Lines 111-113 with the test on the new shape: the last non-empty shape
\* is kept.
FoldStat_LastNonEmptyShape(stat, inclusive_us, exclusive_us, shapes) ==
  [calls        |-> stat.calls + 1,
   total_us     |-> stat.total_us + inclusive_us,
   self_us      |-> stat.self_us + exclusive_us,
   max_us       |-> Max(stat.max_us, inclusive_us),
   sample_shape |-> IF format_shape(shapes) # "" THEN format_shape(shapes)
                    ELSE stat.sample_shape]

\* Lines 107-113.
FoldStat(stat, inclusive_us, exclusive_us, shapes) ==
  [calls        |-> stat.calls + 1,
   total_us     |-> stat.total_us + inclusive_us,
   self_us      |-> stat.self_us + exclusive_us,
   max_us       |-> Max(stat.max_us, inclusive_us),
   sample_shape |-> IF stat.sample_shape = "" THEN format_shape(shapes)
                    ELSE stat.sample_shape]

AddChildTime_Overwrite(s, inclusive_us) ==
  IF s = << >> THEN s
  ELSE [s EXCEPT ![Len(s)].child_time_us = inclusive_us]

AddChildTime(s, inclusive_us) ==
  IF s = << >> THEN s
  ELSE [s EXCEPT ![Len(s)].child_time_us = @ + inclusive_us]

(***************************************************************************)
(* Lines 105-113: fold one interval into the map.                          *)
(***************************************************************************)
Record(st, kernel_name, inclusive_us, exclusive_us, shapes) ==
  MapPut(st, kernel_name,
         FoldStat(StatOf(st, kernel_name), inclusive_us, exclusive_us, shapes))

(***************************************************************************)
(* A pass state P is [stats, stack, log].  OnPopRange is lines 94-117 for  *)
(* the event at index i of thread tid's stream evs, the stack non-empty.   *)
(***************************************************************************)
OnPopRange(P, tid, evs, i) ==
  LET event        == evs[i]
      active       == StackBack(P.stack)
      rest         == PopBack(P.stack)
      start        == evs[active.start]
      inclusive_us == InclusiveUs(start, event)
      exclusive_us == ExclusiveUs(inclusive_us, active.child_time_us)
      kernel_name  == KernelName(start, event)
  IN [stats |-> Record(P.stats, kernel_name, inclusive_us, exclusive_us,
                       start.shapes),
      stack |-> AddChildTime(rest, inclusive_us),
      log   |-> Append(P.log,
                       [thread |-> tid, enter |-> active.start, exit |-> i,
                        name |-> kernel_name, shapes |-> start.shapes,
                        inclusive_us |-> inclusive_us,
                        exclusive_us |-> exclusive_us,
                        child_time_us |-> active.child_time_us])]

\* Lines 91-93 the other way: the PopRange is counted as a call of length 0.
OnPopRangeEmpty_Counted(P, tid, evs, i) ==
  [P EXCEPT !.stats = Record(P.stats, evs[i].name, 0, 0, evs[i].shapes)]

\* Lines 91-93: continue.
OnPopRangeEmpty(P, tid, evs, i) == P

ProcessEvent(P, tid, evs, i) ==
  IF evs[i].kind = "PushRange" THEN [P EXCEPT !.stack = PushFrame(P.stack, i)]
  ELSE IF evs[i].kind = "PopRange" THEN
    IF P.stack = << >> THEN OnPopRangeEmpty(P, tid, evs, i)
    ELSE OnPopRange(P, tid, evs, i)
  ELSE P

\* Line 85 with the stack declared outside the outer loop.
NewStack_Kept(old) == old

\* Line 85: a new, empty stack for every stream.
NewStack(old) == << >>

\* Line 119 with the frames left on the stack closed as spans of length 0.
RECURSIVE EndOfStream_Flush(_, _)
EndOfStream_Flush(P, evs) ==
  IF P.stack = << >> THEN P
  ELSE LET start == evs[StackBack(P.stack).start]
       IN EndOfStream_Flush(
            [P EXCEPT !.stats = Record(P.stats, start.name, 0, 0, start.shapes),
                      !.stack = PopBack(P.stack)],
            evs)

\* Line 119: the inner loop ends; the frames left on the stack are dropped
\* with the stack and the map is not touched.
EndOfStream(P, evs) == P

(***************************************************************************)
(* The whole function on given event lists, as a recursion over the loops. *)
(***************************************************************************)
RECURSIVE RunEvents(_, _, _, _)
RunEvents(P, tid, evs, i) ==
  IF i > Len(evs) THEN P
  ELSE RunEvents(ProcessEvent(P, tid, evs, i), tid, evs, i + 1)

RECURSIVE RunThreads(_, _, _)
RunThreads(P, lists, tid) ==
  IF tid > Len(lists) THEN P
  ELSE RunThreads(
         EndOfStream(RunEvents([P EXCEPT !.stack = NewStack(P.stack)],
                               tid, lists[tid], 1),
                     lists[tid]),
         lists, tid + 1)

aggregate_kernel_stats(lists, st) ==
  RunThreads([stats |-> st, stack |-> << >>, log |-> << >>], lists, 1)

(***************************************************************************)
(* The pass as a state machine: one step per loop iteration.               *)
(***************************************************************************)
\* The pass on its own: main's variables are not looked at.
MainIdle ==
  /\ loaded = << >>
  /\ prompt_tokens = << >>
  /\ step = 0
  /\ max_new_tokens = 0
  /\ eos_token = -1
  /\ delivered = TRUE
  /\ agg_calls = 1
  /\ out = << >>

PassIdle ==
  /\ event_lists = << >>
  /\ stats = EmptyMap
  /\ stack = << >>
  /\ log = << >>

Init ==
  /\ PassIdle
  /\ pc = "run"
  /\ MainIdle

Cur == [stats |-> stats, stack |-> stack, log |-> log]

\* The stream being read, empty before the first one.
CurEvents ==
  IF event_lists = << >> THEN << >> ELSE event_lists[Len(event_lists)]

\* line 84-86: the outer loop moves to the next stream; the previous stream's
\* stack goes out of scope and a fresh one is constructed.
BeginThread(maxThreads) ==
  /\ pc = "run"
  /\ Len(event_lists) < maxThreads
  /\ LET P == EndOfStream(Cur, CurEvents)
     IN /\ stats' = P.stats
        /\ log' = P.log
        /\ stack' = NewStack(P.stack)
  /\ event_lists' = Append(event_lists, << >>)
  /\ UNCHANGED <<pc, mainvars, out>>

\* line 87: the inner loop reads the next event e of the current stream.
Consume(e) ==
  LET tid == Len(event_lists)
      evs == Append(event_lists[tid], e)
      P   == ProcessEvent(Cur, tid, evs, Len(evs))
  IN /\ event_lists' = [event_lists EXCEPT ![tid] = evs]
     /\ stats' = P.stats
     /\ stack' = P.stack
     /\ log' = P.log
     /\ UNCHANGED <<pc, mainvars, out>>

Reading(maxEvents) ==
  /\ pc = "run"
  /\ Len(event_lists) > 0
  /\ SumLen(event_lists) < maxEvents

PushRange(events, maxEvents) ==
  /\ Reading(maxEvents)
  /\ \E e \in events : e.kind = "PushRange" /\ Consume(e)

PopRange(events, maxEvents) ==
  /\ Reading(maxEvents)
  /\ stack # << >>
  /\ \E e \in events : e.kind = "PopRange" /\ Consume(e)

PopRangeEmpty(events, maxEvents) ==
  /\ Reading(maxEvents)
  /\ stack = << >>
  /\ \E e \in events : e.kind = "PopRange" /\ Consume(e)

OtherKind(events, maxEvents) ==
  /\ Reading(maxEvents)
  /\ \E e \in events : e.kind \notin {"PushRange", "PopRange"} /\ Consume(e)

\* line 120-121: both loops are over and the function returns.
Finish ==
  /\ pc = "run"
  /\ LET P == EndOfStream(Cur, CurEvents)
     IN /\ stats' = P.stats
        /\ log' = P.log
        /\ stack' = P.stack
  /\ pc' = "done"
  /\ UNCHANGED <<event_lists, mainvars, out>>

(***************************************************************************)
(* print_kernel_stats.  The vector `ordered` is filled in the iteration    *)
(* order of the unordered_map, which the map's contents do not fix, and    *)
(* std::sort leaves equal elements in any order: `ordered` after the sort  *)
(* is any order of the entries in which no entry precedes one that the     *)
(* comparator puts before it.                                              *)
(***************************************************************************)
RowLimit == 30

NameWidth == 48

MinOf(a, b) == IF a < b THEN a ELSE b

\* Line 131 with < for >.
SortsBefore_Ascending(lhs, rhs) == lhs.total_us < rhs.total_us

\* Lines 130-132: the comparator.
SortsBefore(lhs, rhs) == lhs.total_us > rhs.total_us

RECURSIVE SortedOrders(_, _)
SortedOrders(st, S) ==
  IF S = {} THEN {<< >>}
  ELSE UNION {{<<n>> \o rest : rest \in SortedOrders(st, S \ {n})} :
                n \in {m \in S : \A y \in S : ~ SortsBefore(st[y], st[m])}}

RECURSIVE SumSelf(_, _, _)
\* Lines 134-137 over the first i entries of ordered.
SumSelf(st, ordered, i) ==
  IF i = 0 THEN 0 ELSE SumSelf(st, ordered, i - 1) + st[ordered[i]].self_us

\* Lines 134-137 over the displayed rows only.
TotalTime_Displayed(st, ordered) ==
  SumSelf(st, ordered, MinOf(RowLimit, Len(ordered)))

\* Lines 134-137.
TotalTime(st, ordered) == SumSelf(st, ordered, Len(ordered))

\* Line 149 with no limit.
Limit_All(n) == n

\* Line 149.
Limit(n) == MinOf(RowLimit, n)

\* Line 153: name.substr(0, 48).
Substr(name) == IF Len(name) <= NameWidth THEN name ELSE SubSeq(name, 1, NameWidth)

\* Line 152: total_us / calls as a fraction, 0 when calls is 0.
AvgUs(stat) ==
  IF stat.calls > 0 THEN [num |-> stat.total_us, den |-> stat.calls]
  ELSE [num |-> 0, den |-> 1]

\* Lines 151-160: one row; entry is the key of the map the row is printed for.
Row(name, stat) ==
  [kind |-> "row", entry |-> name, kernel |-> Substr(name),
   calls |-> stat.calls, total_us |-> stat.total_us, self_us |-> stat.self_us,
   avg_us |-> AvgUs(stat), max_us |-> stat.max_us, shape |-> stat.sample_shape]

Text(t) == [kind |-> "text", text |-> t]

\* Lines 139-165.  Line 139 writes "\n" before the title: an empty line and
\* then the title line.
Table(st, ordered) ==
  << Text(""),
     Text("Kernel CPU time summary (top 30 by inclusive time)"),
     [kind |-> "header"], [kind |-> "rule"] >>
  \o [i \in 1..Limit(Len(ordered)) |-> Row(ordered[i], st[ordered[i]])]
  \o << [kind |-> "rule"],
        [kind |-> "total", total_time |-> TotalTime(st, ordered)] >>

\* Lines 129-165 without the test of lines 124-127.
print_kernel_stats_NoEmptyTest(st, ordered) == Table(st, ordered)

\* Lines 124-127 and, for the order `ordered` the sort left, lines 129-165.
print_kernel_stats(st, ordered) ==
  IF DOMAIN st = {} THEN <<Text("No profiler events collected.")>>
  ELSE Table(st, ordered)

\* Lines 124-127: the map is empty.
PrintNoEvents ==
  /\ pc = "done"
  /\ DOMAIN stats = {}
  /\ out' = out \o print_kernel_stats(stats, << >>)
  /\ pc' = "exit"
  /\ UNCHANGED <<passvars, mainvars>>

\* Lines 129-165: the map has entries.
PrintTable ==
  /\ pc = "done"
  /\ DOMAIN stats # {}
  /\ \E ordered \in SortedOrders(stats, DOMAIN stats) :
       out' = out \o print_kernel_stats(stats, ordered)
  /\ pc' = "exit"
  /\ UNCHANGED <<passvars, mainvars>>

(***************************************************************************)
(* Spec: several threads; two names, two timestamps, no shapes recorded,   *)
(* and events of a kind the pass ignores.  A PopRange's name is never read *)
(* by the pass, so one name stands for all.                                *)
(***************************************************************************)
Times == {0, 10}
Events == PushEvents(Names, Times, {NoShapes}) \cup PopEvents({"B"}, Times)
            \cup MarkEvents

Next ==
  \/ BeginThread(MaxThreads)
  \/ PushRange(Events, MaxEvents)
  \/ PopRange(Events, MaxEvents)
  \/ PopRangeEmpty(Events, MaxEvents)
  \/ OtherKind(Events, MaxEvents)
  \/ Finish

Spec == Init /\ [][Next]_vars

(***************************************************************************)
(* SpecNest: one thread, deep nesting; PushRange and PopRange events both  *)
(* carry either name, all at one timestamp.                                *)
(***************************************************************************)
NestEvents == PushEvents(Names, {0}, {NoShapes}) \cup PopEvents(Names, {0})
                \cup MarkEvents

NextNest ==
  \/ BeginThread(1)
  \/ PushRange(NestEvents, MaxEventsNest)
  \/ PopRange(NestEvents, MaxEventsNest)
  \/ PopRangeEmpty(NestEvents, MaxEventsNest)
  \/ OtherKind(NestEvents, MaxEventsNest)
  \/ Finish

SpecNest == Init /\ [][NextNest]_vars

(***************************************************************************)
(* SpecTiming: one thread; spans open at 0 or 10 and close at 0, 30 or 50, *)
(* so that a span can close before it opened and children can outlast      *)
(* their parent.                                                           *)
(***************************************************************************)
TimingEvents == PushEvents(Names, {0, 10}, {NoShapes})
                  \cup PopEvents({"B"}, {0, 30, 50})

NextTiming ==
  \/ BeginThread(1)
  \/ PushRange(TimingEvents, MaxEventsTiming)
  \/ PopRange(TimingEvents, MaxEventsTiming)
  \/ PopRangeEmpty(TimingEvents, MaxEventsTiming)

SpecTiming == Init /\ [][NextTiming]_vars

(***************************************************************************)
(* SpecShape: one thread, one timestamp; a PushRange records no dimensions *)
(* for its first input, or one of two shapes.                              *)
(***************************************************************************)
ShapeSet == {<<<< >>, <<4>>>>, <<<<2, 3>>>>, <<<<4>>>>}
ShapeEvents == PushEvents(Names, {0}, ShapeSet) \cup PopEvents({"B"}, {0})

NextShape ==
  \/ BeginThread(1)
  \/ PushRange(ShapeEvents, MaxEventsShape)
  \/ PopRange(ShapeEvents, MaxEventsShape)
  \/ PopRangeEmpty(ShapeEvents, MaxEventsShape)

SpecShape == Init /\ [][NextShape]_vars

(***************************************************************************)
(* SpecReport: print_kernel_stats on maps of up to MaxReportNames entries  *)
(* whose totals ascend or descend with the index of the name, with the two *)
(* largest totals equal, with the totals at the 30-row cut equal, or (up   *)
(* to three entries) all equal; the map of the ranking example; and a map  *)
(* with two names that agree in their first 48 characters.                 *)
(***************************************************************************)
MaxReportNames == 40

ReportName(i) == "K" \o ToString(i)

\* An entry two calls can leave: calls 2, max >= total / 2, self <= total.
StatOfTotal(total) ==
  [total_us |-> total, self_us |-> total \div 2, max_us |-> total - (total \div 4),
   calls |-> 2, sample_shape |-> ""]

TotalIn(pattern, i, n) ==
  CASE pattern = "ascending"  -> 10 * i
    [] pattern = "descending" -> 10 * (n + 1 - i)
    [] pattern = "tie_top"    -> IF i = n THEN 10 * (n - 1) ELSE 10 * i
    [] pattern = "tie_cut"    -> IF i = n - RowLimit THEN 10 * (i + 1) ELSE 10 * i
    [] pattern = "all_equal"  -> 10

PatternMap(pattern, n) ==
  LET idx == [name \in {ReportName(i) : i \in 1..n} |->
                CHOOSE i \in 1..n : ReportName(i) = name]
  IN [name \in DOMAIN idx |-> StatOfTotal(TotalIn(pattern, idx[name], n))]

OneCall(total) ==
  [total_us |-> total, self_us |-> total, max_us |-> total, calls |-> 1,
   sample_shape |-> ""]

P6Map == [name \in {"A", "B", "C"} |->
            OneCall(CASE name = "A" -> 100 [] name = "B" -> 50 [] name = "C" -> 200)]

LongPrefix == "aten::a_kernel_name_that_is_longer_than_the_column_"

LongNamesMap ==
  [name \in {LongPrefix \o "forward", LongPrefix \o "backward", "B"} |->
     OneCall(IF name = "B" THEN 30 ELSE Len(name))]

ReportMaps ==
  {PatternMap(p, n) : p \in {"ascending", "descending"}, n \in 0..MaxReportNames}
  \cup {PatternMap("tie_top", n) : n \in 2..MaxReportNames}
  \cup {PatternMap("tie_cut", n) : n \in (RowLimit + 1)..MaxReportNames}
  \cup {PatternMap("all_equal", n) : n \in 2..3}
  \cup {P6Map, LongNamesMap}

InitReport ==
  /\ event_lists = << >>
  /\ stats \in ReportMaps
  /\ stack = << >>
  /\ log = << >>
  /\ pc = "done"
  /\ MainIdle

NextReport ==
  \/ PrintNoEvents
  \/ PrintTable

SpecReport == InitReport /\ [][NextReport]_vars

(***************************************************************************)
(* SpecSpans: several threads with timestamps that can nest spans, put     *)
(* spans side by side, and run backwards.                                  *)
(***************************************************************************)
MaxEventsSpans == 6

SpanEvents == PushEvents(Names, {0, 10}, {NoShapes})
                \cup PopEvents({"B"}, {10, 30})

NextSpans ==
  \/ BeginThread(MaxThreads)
  \/ PushRange(SpanEvents, MaxEventsSpans)
  \/ PopRange(SpanEvents, MaxEventsSpans)
  \/ PopRangeEmpty(SpanEvents, MaxEventsSpans)

SpecSpans == Init /\ [][NextSpans]_vars

(***************************************************************************)
(* main from line 199 on.  The scoring model is opaque: module.forward     *)
(* returns logits whose argmax is any index of the vocabulary, or throws.  *)
(***************************************************************************)
MaxNewTokens == 3

Vocab == {0, 1, 2}

\* Line 225 with the test left out: the loop never breaks.
StopsAt_Never(eos, next_token) == FALSE

\* Line 225.
StopsAt(eos, next_token) == eos >= 0 /\ next_token = eos

\* Lines 212-228: one iteration of the generation loop.
GenStep(vocab) ==
  /\ pc = "generate"
  /\ step < max_new_tokens
  /\ \E next_token \in vocab :
       /\ prompt_tokens' = Append(prompt_tokens, next_token)
       /\ IF StopsAt(eos_token, next_token)
          THEN pc' = "loop_done" /\ step' = step
          ELSE pc' = pc /\ step' = step + 1
  /\ UNCHANGED <<passvars, loaded, max_new_tokens, eos_token, delivered, agg_calls, out>>

\* Line 212: the loop condition fails.
LoopExit ==
  /\ pc = "generate"
  /\ step >= max_new_tokens
  /\ pc' = "loop_done"
  /\ UNCHANGED <<passvars, mainvars, out>>

\* Line 216: module.forward throws; the guard goes out of scope on the way
\* to the handler, which returns 2.
ForwardThrows ==
  /\ pc = "generate"
  /\ step < max_new_tokens
  /\ pc' = "failed"
  /\ delivered' = TRUE
  /\ UNCHANGED <<passvars, genvars, agg_calls, out>>

\* Line 229: the scope of profiler_guard closes and its callback (lines
\* 202-204) stores the event lists.
GuardClose ==
  /\ pc = "loop_done"
  /\ delivered' = TRUE
  /\ pc' = "collected"
  /\ UNCHANGED <<passvars, genvars, agg_calls, out>>

\* Lines 231-232.
WriteTokens ==
  /\ pc = "collected"
  /\ out' = Append(out, Text("Generated " \o ToString(Len(prompt_tokens)) \o " tokens."))
  /\ pc' = "written"
  /\ UNCHANGED <<passvars, mainvars>>

\* Lines 231, 36-38: the output file cannot be opened; main returns 3.
WriteFails ==
  /\ pc = "collected"
  /\ pc' = "write_failed"
  /\ UNCHANGED <<passvars, mainvars, out>>

\* Where main calls the pass: after line 232.
CanAggregate(p) == p = "written"

\* Lines 234-236: the event lists are not empty; the pass is called on a
\* new map.
CallAggregate ==
  /\ CanAggregate(pc)
  /\ event_lists' = << >>
  /\ stats' = EmptyMap
  /\ stack' = << >>
  /\ log' = << >>
  /\ agg_calls' = agg_calls + 1
  /\ pc' = "run"
  /\ UNCHANGED <<genvars, delivered, out>>

\* Lines 238-240: the event lists are empty.
NoEvents ==
  /\ pc = "written"
  /\ out' = Append(out, Text("Profiler did not capture any events."))
  /\ pc' = "exit"
  /\ UNCHANGED <<passvars, mainvars>>

\* Lines 120-121 in main: the pass returns, having been given at least one
\* stream (line 234).
Return ==
  /\ event_lists # << >>
  /\ Finish

InitMain(prompts, maxes, eoses) ==
  /\ PassIdle
  /\ pc = "generate"
  /\ loaded \in prompts
  /\ prompt_tokens = loaded
  /\ step = 0
  /\ max_new_tokens \in maxes
  /\ eos_token \in eoses
  /\ delivered = FALSE
  /\ agg_calls = 0
  /\ out = << >>

(***************************************************************************)
(* SpecGen: the generation loop, for prompts of one or two tokens,         *)
(* max_new_tokens from -1 to MaxNewTokens, and eos_token negative, in the  *)
(* vocabulary, or outside it.  SpecGenFair: the loop keeps running.        *)
(***************************************************************************)
InitGen == InitMain({<<7>>, <<7, 1>>}, -1..MaxNewTokens, {-1, 0, 1, 9})

NextGen ==
  \/ GenStep(Vocab)
  \/ LoopExit
  \/ ForwardThrows
  \/ GuardClose

SpecGen == InitGen /\ [][NextGen]_vars

SpecGenFair == InitGen /\ [][NextGen]_vars /\ WF_vars(NextGen)

(***************************************************************************)
(* SpecMain: main from the generation loop to its return, with at most one *)
(* generated token and streams of up to MaxEventsMain events.              *)
(***************************************************************************)
MaxEventsMain == 3

InitMainSmall == InitMain({<<7>>}, {0, 1}, {-1, 0})

NextMain ==
  \/ GenStep({0})
  \/ LoopExit
  \/ ForwardThrows
  \/ GuardClose
  \/ WriteTokens
  \/ WriteFails
  \/ CallAggregate
  \/ NoEvents
  \/ BeginThread(MaxThreads)
  \/ PushRange(Events, MaxEventsMain)
  \/ PopRange(Events, MaxEventsMain)
  \/ PopRangeEmpty(Events, MaxEventsMain)
  \/ OtherKind(Events, MaxEventsMain)
  \/ Return
  \/ PrintNoEvents
  \/ PrintTable

SpecMain == InitMainSmall /\ [][NextMain]_vars

(***************************************************************************)
(* History read off the log and the streams, without the stack.            *)
(***************************************************************************)
LogOf(tid) == {k \in DOMAIN log : log[k].thread = tid}

\* The PushRange indices of stream tid that are before index j and were not
\* closed by a PopRange before index j.
OpenBefore(tid, j) ==
  {i \in 1..(j - 1) :
     /\ event_lists[tid][i].kind = "PushRange"
     /\ ~ \E k \in LogOf(tid) : log[k].enter = i /\ log[k].exit < j}

SetMax(S) == CHOOSE m \in S : \A x \in S : x <= m

\* C1: every PopRange that finds an open PushRange before it in its stream
\* closes exactly one span, the last-opened PushRange still open, and the
\* interval carries that PushRange's name, whatever name the PopRange has;
\* a PopRange that finds none closes nothing.
C1_LastOpenedFirstClosed ==
  /\ \A tid \in DOMAIN event_lists :
       \A j \in DOMAIN event_lists[tid] :
         LET closed == {k \in LogOf(tid) : log[k].exit = j}
         IN IF event_lists[tid][j].kind = "PopRange" /\ OpenBefore(tid, j) # {}
            THEN /\ Cardinality(closed) = 1
                 /\ \A k \in closed :
                      /\ log[k].enter = SetMax(OpenBefore(tid, j))
                      /\ log[k].name = event_lists[tid][log[k].enter].name
            ELSE closed = {}
  /\ \A k \in DOMAIN log :
       /\ log[k].thread \in DOMAIN event_lists
       /\ log[k].exit \in DOMAIN event_lists[log[k].thread]
       /\ \A h \in DOMAIN log :
            (h < k /\ log[h].thread = log[k].thread) => log[h].exit < log[k].exit

\* C1 witness: an inner span was closed while an outer one stayed open, by a
\* PopRange carrying another name than the PushRange it closed, and then the
\* outer span was closed too.
C1_Witness ==
  \E k, h \in DOMAIN log :
    /\ k < h
    /\ log[k].thread = log[h].thread
    /\ log[h].enter < log[k].enter
    /\ log[h].name # log[k].name
    /\ event_lists[log[k].thread][log[k].exit].name # log[k].name
    /\ event_lists[log[h].thread][log[h].exit].name = log[k].name

RECURSIVE SumInclusive(_)
SumInclusive(S) ==
  IF S = {} THEN 0
  ELSE LET k == CHOOSE x \in S : TRUE
       IN log[k].inclusive_us + SumInclusive(S \ {k})

\* Span c lies inside span p: same stream, opened after p and closed before p.
Inside(c, p) ==
  /\ log[c].thread = log[p].thread
  /\ log[p].enter < log[c].enter
  /\ log[c].exit < log[p].exit

\* The direct children of p: the spans inside p with no span between.
DirectChildren(p) ==
  {c \in DOMAIN log :
     Inside(c, p) /\ ~ \E q \in DOMAIN log : Inside(c, q) /\ Inside(q, p)}

\* The stream of the decomposition example.  The pass never reads the name
\* of a PopRange, and SpecTiming gives every PopRange the name "B".
P1Stream ==
  << MkEvent("PushRange", "A", 0, NoShapes), MkEvent("PushRange", "B", 10, NoShapes),
     MkEvent("PopRange", "B", 30, NoShapes), MkEvent("PopRange", "B", 50, NoShapes) >>

\* C2: the exclusive time of every closed span is its inclusive time minus
\* the summed inclusive times of its direct children, or 0 if that is
\* negative; and PushRange(A,0), PushRange(B,10), PopRange(30), PopRange(50)
\* gives B 20 inclusive / 20 exclusive and A 50 inclusive / 30 exclusive.
C2_ExclusiveIsInclusiveMinusDirectChildren ==
  /\ \A p \in DOMAIN log :
       log[p].exclusive_us =
         Max(0, log[p].inclusive_us - SumInclusive(DirectChildren(p)))
  /\ (event_lists = <<P1Stream>>) =>
       /\ Len(log) = 2
       /\ log[1].name = "B" /\ log[1].inclusive_us = 20 /\ log[1].exclusive_us = 20
       /\ log[2].name = "A" /\ log[2].inclusive_us = 50 /\ log[2].exclusive_us = 30
       /\ stats["B"].total_us = 20 /\ stats["B"].self_us = 20
       /\ stats["A"].total_us = 50 /\ stats["A"].self_us = 30

\* C2 witness: a span closed with a direct child that has a child of its own,
\* all three of positive length, and its exclusive time left out the child's
\* inclusive time only.
C2_Witness ==
  \E p, c, g \in DOMAIN log :
    /\ c \in DirectChildren(p) /\ g \in DirectChildren(c)
    /\ DirectChildren(p) = {c}
    /\ log[g].inclusive_us > 0
    /\ log[c].exclusive_us > 0
    /\ log[p].exclusive_us > 0
    /\ log[p].exclusive_us = log[p].inclusive_us - log[c].inclusive_us

\* The stream of P1 is one the pass can be given.
C2_P1Reached == event_lists = <<P1Stream>> /\ Len(log) = 2

StatFields(st) == {st.total_us, st.self_us, st.max_us}

\* C3: no duration is negative: every resolved interval has inclusive and
\* exclusive time >= 0, every open frame's accumulated child time is >= 0,
\* every KernelStat has total, self and max >= 0, and a span whose PopRange
\* is earlier than its PushRange has inclusive 0 and exclusive 0.
C3_NoNegativeDuration ==
  /\ \A k \in DOMAIN log :
       /\ log[k].inclusive_us >= 0
       /\ log[k].exclusive_us >= 0
       /\ log[k].child_time_us >= 0
       /\ LET evs == event_lists[log[k].thread]
          IN evs[log[k].exit].t < evs[log[k].enter].t =>
               log[k].inclusive_us = 0 /\ log[k].exclusive_us = 0
  /\ \A d \in DOMAIN stack : stack[d].child_time_us >= 0
  /\ \A n \in DOMAIN stats : \A v \in StatFields(stats[n]) : v >= 0

\* C3 witness: one span closed before it opened, and another span's child
\* lasted longer than the span itself; both were clamped to 0.
C3_Witness ==
  \E k, p \in DOMAIN log :
    LET evs == event_lists[log[k].thread]
    IN /\ evs[log[k].exit].t < evs[log[k].enter].t
       /\ log[k].inclusive_us = 0
       /\ log[p].child_time_us > log[p].inclusive_us
       /\ log[p].inclusive_us > 0
       /\ log[p].exclusive_us = 0

(***************************************************************************)
(* Streams with some events taken out, and what a pass over them gives.    *)
(***************************************************************************)
RECURSIVE Without(_, _, _)
\* The stream evs without the events at the indices in drop, from index i on.
Without(evs, drop, i) ==
  IF i > Len(evs) THEN << >>
  ELSE IF i \in drop THEN Without(evs, drop, i + 1)
  ELSE <<evs[i]>> \o Without(evs, drop, i + 1)

\* The PopRange indices of stream tid that closed no span.
DroppedPops(tid) ==
  {j \in DOMAIN event_lists[tid] :
     /\ event_lists[tid][j].kind = "PopRange"
     /\ ~ \E k \in LogOf(tid) : log[k].exit = j}

\* The PushRange indices of stream tid that no PopRange closed.
UnclosedPushes(tid) ==
  {i \in DOMAIN event_lists[tid] :
     /\ event_lists[tid][i].kind = "PushRange"
     /\ ~ \E k \in LogOf(tid) : log[k].enter = i}

\* What a frame stands for, whatever the index of its PushRange.
FrameView(s, evs) ==
  [d \in DOMAIN s |->
     [start |-> evs[s[d].start], child_time_us |-> s[d].child_time_us]]

\* What an interval is, whatever the indices of its events.
IntervalView(l) ==
  [k \in DOMAIN l |->
     [thread |-> l[k].thread, name |-> l[k].name, shapes |-> l[k].shapes,
      inclusive_us |-> l[k].inclusive_us, exclusive_us |-> l[k].exclusive_us]]

PassView(P, evs) ==
  [stats |-> P.stats, stack |-> FrameView(P.stack, evs), log |-> IntervalView(P.log)]

WithoutDroppedPops ==
  [tid \in DOMAIN event_lists |-> Without(event_lists[tid], DroppedPops(tid), 1)]

LastOf(lists) == IF lists = << >> THEN << >> ELSE lists[Len(lists)]

\* The step reads a PopRange while the stack is empty.
ReadsPopOnEmptyStack ==
  /\ pc = "run" /\ event_lists # << >> /\ stack = << >>
  /\ Len(event_lists') = Len(event_lists)
  /\ Len(CurEvents') = Len(CurEvents) + 1
  /\ CurEvents'[Len(CurEvents')].kind = "PopRange"

\* C4: a PopRange read while the stack is empty changes neither the map nor
\* the stack and the pass goes on; and at every point the map, the open
\* frames and the intervals resolved are those of a pass over the same
\* streams without the PopRanges that found the stack empty.
C4_PopOnEmptyStackIsNoOp ==
  /\ [][ReadsPopOnEmptyStack =>
          stats' = stats /\ stack' = stack /\ log' = log /\ pc' = "run"]_vars
  /\ [](PassView(Cur, CurEvents) =
          PassView(aggregate_kernel_stats(WithoutDroppedPops, EmptyMap),
                   LastOf(WithoutDroppedPops)))

\* C4 witness: a PopRange found the stack empty, and after it a span was
\* opened and closed in the same stream.
C4_Witness ==
  \E tid \in DOMAIN event_lists :
    \E j \in DroppedPops(tid) :
      \E k \in LogOf(tid) : log[k].enter > j /\ log[k].inclusive_us > 0

WithoutUnclosedPushes ==
  [tid \in DOMAIN event_lists |-> Without(event_lists[tid], UnclosedPushes(tid), 1)]

\* The step ends a stream: the outer loop moves on, or the function returns.
EndsStream == Len(event_lists') > Len(event_lists) \/ pc' = "done"

RECURSIVE SumCalls(_, _)
SumCalls(st, S) ==
  IF S = {} THEN 0
  ELSE LET n == CHOOSE x \in S : TRUE IN st[n].calls + SumCalls(st, S \ {n})

\* C5: the end of a stream changes no KernelStat, and when the pass is over
\* the map counts the closed spans only: it is the map of a pass over the
\* same streams without the PushRanges that were never closed, with one call
\* per closed span.
C5_UnclosedPushesContributeNothing ==
  /\ [][EndsStream => stats' = stats /\ log' = log]_vars
  /\ [](pc = "done" =>
          /\ stats = aggregate_kernel_stats(WithoutUnclosedPushes, EmptyMap).stats
          /\ IntervalView(log) =
               IntervalView(aggregate_kernel_stats(WithoutUnclosedPushes, EmptyMap).log)
          /\ SumCalls(stats, DOMAIN stats) = Len(log))

\* C5 witness: the pass is over; a stream ended with a PushRange never
\* closed, whose name has no KernelStat, while a span of positive length that
\* closed inside it was counted.
C5_Witness ==
  /\ pc = "done"
  /\ \E tid \in DOMAIN event_lists :
       \E i \in UnclosedPushes(tid) :
         /\ event_lists[tid][i].name \notin DOMAIN stats
         /\ \E k \in LogOf(tid) :
              /\ log[k].enter > i
              /\ log[k].inclusive_us > 0
              /\ stats[log[k].name].calls = 1
              /\ stats[log[k].name].total_us = log[k].inclusive_us

\* The intervals of stream tid, as the pass resolved them.
IntervalsOf(tid) ==
  LET ks == {k \in DOMAIN log : log[k].thread = tid}
      Nth[n \in 0..Cardinality(ks)] ==
        IF n = 0 THEN 0
        ELSE CHOOSE k \in ks : k > Nth[n - 1] /\ \A h \in ks : h > Nth[n - 1] => k <= h
  IN [n \in 1..Cardinality(ks) |-> [log[Nth[n]] EXCEPT !.thread = 1]]

\* C6: every stream starts with an empty stack, every interval has both its
\* events in one stream, and the intervals resolved from a stream are those
\* of a pass over that stream alone.
C6_StreamsAreIndependent ==
  /\ (event_lists # << >> /\ CurEvents = << >>) => stack = << >>
  /\ \A k \in DOMAIN log :
       /\ log[k].thread \in DOMAIN event_lists
       /\ {log[k].enter, log[k].exit} \subseteq DOMAIN event_lists[log[k].thread]
       /\ event_lists[log[k].thread][log[k].enter].kind = "PushRange"
       /\ event_lists[log[k].thread][log[k].exit].kind = "PopRange"
  /\ \A tid \in DOMAIN event_lists :
       IntervalsOf(tid) = aggregate_kernel_stats(<<event_lists[tid]>>, EmptyMap).log
  /\ \A d \in DOMAIN stack :
       /\ stack[d].start \in DOMAIN CurEvents
       /\ CurEvents[stack[d].start].kind = "PushRange"

\* C6 witness: the first stream ended with a PushRange never closed; the
\* second began with a PopRange, which closed nothing, and then resolved a
\* span of its own.
C6_Witness ==
  /\ Len(event_lists) = 2
  /\ UnclosedPushes(1) # {}
  /\ 1 \in DroppedPops(2)
  /\ \E k \in LogOf(2) : log[k].inclusive_us > 0

(***************************************************************************)
(* Folds and passes in another order.                                      *)
(***************************************************************************)
RECURSIVE FoldIntervals(_, _, _, _)
\* The intervals l folded into st in the order ord[i], ord[i+1], ...
FoldIntervals(st, l, ord, i) ==
  IF i > Len(l) THEN st
  ELSE FoldIntervals(
         Record(st, l[ord[i]].name, l[ord[i]].inclusive_us,
                l[ord[i]].exclusive_us, l[ord[i]].shapes),
         l, ord, i + 1)

\* The counters of a map, without the sample shapes.
Counters(st) ==
  [n \in DOMAIN st |->
     [calls |-> st[n].calls, total_us |-> st[n].total_us,
      self_us |-> st[n].self_us, max_us |-> st[n].max_us]]

Reordered(lists, ord) == [t \in DOMAIN lists |-> lists[ord[t]]]

\* C7: the counters (calls, total inclusive, total exclusive, max inclusive)
\* of every name are the same whatever the order in which the resolved
\* intervals are folded, and whatever the order of the streams in
\* event_lists.
C7_AggregationIsOrderIndependent ==
  /\ \A ord \in Permutations(DOMAIN log) :
       Counters(FoldIntervals(EmptyMap, log, ord, 1)) = Counters(stats)
  /\ \A ord \in Permutations(DOMAIN event_lists) :
       Counters(aggregate_kernel_stats(Reordered(event_lists, ord), EmptyMap).stats)
         = Counters(stats)

\* C7 witness: the pass is over; two streams each resolved a span of the
\* same name, of different lengths.
C7_Witness ==
  /\ pc = "done"
  /\ \E k \in LogOf(1) : \E h \in LogOf(2) :
       /\ log[k].name = log[h].name
       /\ log[k].inclusive_us > log[h].inclusive_us
       /\ stats[log[k].name].calls = 2

\* C10: every entry of the map has calls >= 1, and no step removes an entry
\* or decreases an entry's calls, total inclusive, total exclusive or max
\* inclusive time.
C10_EntriesCountedAndMonotone ==
  /\ [](\A n \in DOMAIN stats : stats[n].calls >= 1)
  /\ [][/\ DOMAIN stats \subseteq DOMAIN stats'
         /\ \A n \in DOMAIN stats :
              /\ stats[n].calls <= stats'[n].calls
              /\ stats[n].total_us <= stats'[n].total_us
              /\ stats[n].self_us <= stats'[n].self_us
              /\ stats[n].max_us <= stats'[n].max_us]_vars

\* C10 witness: an entry was folded into twice, the second time with a
\* shorter span than the first.
C10_Witness ==
  \E n \in DOMAIN stats :
    /\ stats[n].calls = 2
    /\ stats[n].max_us = stats[n].total_us
    /\ stats[n].max_us > 0
    /\ log[Len(log)].name = n
    /\ log[Len(log)].inclusive_us = 0

(***************************************************************************)
(* The shapes of the intervals folded for a name, in the order folded.     *)
(***************************************************************************)
FoldsOf(n) == {k \in DOMAIN log : log[k].name = n}

ShapeOf(k) == format_shape(log[k].shapes)

SetMin(S) == CHOOSE m \in S : \A x \in S : m <= x

FirstNonEmptyShape(n) ==
  LET ks == {k \in FoldsOf(n) : ShapeOf(k) # ""}
  IN IF ks = {} THEN "" ELSE ShapeOf(SetMin(ks))

\* C8: a name's sample_shape is the shape of the earliest interval folded
\* for it whose shape is not empty, empty if there is none; and once it is
\* not empty no step changes it.
C8_FirstNonEmptyShapeWins ==
  /\ [](\A n \in DOMAIN stats : stats[n].sample_shape = FirstNonEmptyShape(n))
  /\ [][\A n \in DOMAIN stats :
          stats[n].sample_shape # "" =>
            n \in DOMAIN stats' /\ stats'[n].sample_shape = stats[n].sample_shape]_vars

\* C8 witness: three intervals of one name were folded: the first without a
\* shape, then two with different shapes; the second one's shape is kept.
C8_Witness ==
  \E n \in DOMAIN stats :
    \E a, b, c \in FoldsOf(n) :
      /\ a < b /\ b < c
      /\ ShapeOf(a) = "" /\ ShapeOf(b) # "" /\ ShapeOf(c) # ""
      /\ ShapeOf(b) # ShapeOf(c)
      /\ stats[n].sample_shape = ShapeOf(b)

\* C9 as stated: a name's sample_shape is the shape of the first interval
\* folded for it, also when that shape is empty.
C9_FirstShapeWins ==
  \A n \in DOMAIN stats :
    stats[n].sample_shape = ShapeOf(SetMin(FoldsOf(n)))

\* Once a name's sample_shape is not empty no step changes it.
ShapeKeptOnceSet ==
  \A n \in DOMAIN stats :
    stats[n].sample_shape # "" =>
      n \in DOMAIN stats' /\ stats'[n].sample_shape = stats[n].sample_shape

\* C9 as amended: when the first interval folded for a name has a shape,
\* the name's sample_shape is that shape, and no later fold overwrites it;
\* when the first interval's shape is empty, sample_shape is empty until an
\* interval of the name with a shape is folded, and from then on it is the
\* shape of the earliest such interval.
C9_FirstShapeWinsUnlessEmpty ==
  /\ [](\A n \in DOMAIN stats :
          /\ FoldsOf(n) # {}
          /\ IF ShapeOf(SetMin(FoldsOf(n))) # ""
             THEN stats[n].sample_shape = ShapeOf(SetMin(FoldsOf(n)))
             ELSE stats[n].sample_shape = FirstNonEmptyShape(n))
  /\ [][ShapeKeptOnceSet]_vars

\* C9 witness: the first interval of a name had an empty shape and a later
\* one of the same name had a shape, which sample_shape took; and another
\* name keeps the shape of its first interval.
C9_Witness ==
  \E n, m \in DOMAIN stats :
    /\ \E a, b \in FoldsOf(n) :
         /\ a = SetMin(FoldsOf(n)) /\ a < b
         /\ ShapeOf(a) = "" /\ ShapeOf(b) # ""
         /\ stats[n].sample_shape = ShapeOf(b)
    /\ m # n
    /\ ShapeOf(SetMin(FoldsOf(m))) # ""
    /\ stats[m].sample_shape = ShapeOf(SetMin(FoldsOf(m)))

\* C9, other case reached: the first interval of a name had a shape, a
\* later one of the same name had another, and the first one's is kept.
C9_FirstKeptReached ==
  \E n \in DOMAIN stats :
    \E a, b \in FoldsOf(n) :
      /\ a = SetMin(FoldsOf(n)) /\ a < b
      /\ ShapeOf(a) # "" /\ ShapeOf(b) # "" /\ ShapeOf(a) # ShapeOf(b)
      /\ stats[n].sample_shape = ShapeOf(a)

(***************************************************************************)
(* Counts read off a stream alone.                                         *)
(***************************************************************************)
CountKind(evs, kind) == Cardinality({i \in DOMAIN evs : evs[i].kind = kind})

RECURSIVE DepthAfter(_, _)
\* How many spans are open after the first j events of evs.
DepthAfter(evs, j) ==
  IF j = 0 THEN 0
  ELSE LET d == DepthAfter(evs, j - 1)
       IN IF evs[j].kind = "PushRange" THEN d + 1
          ELSE IF evs[j].kind = "PopRange" /\ d > 0 THEN d - 1
          ELSE d

\* The PopRanges of evs read while a span was open.
ClosingPops(evs) ==
  {j \in DOMAIN evs : evs[j].kind = "PopRange" /\ DepthAfter(evs, j - 1) > 0}

RECURSIVE SumClosingPops(_, _)
SumClosingPops(lists, tid) ==
  IF tid > Len(lists) THEN 0
  ELSE Cardinality(ClosingPops(lists[tid])) + SumClosingPops(lists, tid + 1)

\* C11: no event is used by two intervals and every interval uses one
\* PushRange and one PopRange of its own stream; the calls of all names sum
\* to the number of PopRanges read while a span was open, which in every
\* stream is at most the smaller of its PushRange and PopRange counts.
C11_OneIntervalPerPair ==
  /\ \A k, h \in DOMAIN log :
       (k # h /\ log[k].thread = log[h].thread) =>
         log[k].enter # log[h].enter /\ log[k].exit # log[h].exit
  /\ \A k \in DOMAIN log :
       LET evs == event_lists[log[k].thread]
       IN /\ evs[log[k].enter].kind = "PushRange"
          /\ evs[log[k].exit].kind = "PopRange"
  /\ SumCalls(stats, DOMAIN stats) = SumClosingPops(event_lists, 1)
  /\ \A tid \in DOMAIN event_lists :
       /\ Cardinality(LogOf(tid)) = Cardinality(ClosingPops(event_lists[tid]))
       /\ Cardinality(LogOf(tid)) <=
            MinOf(CountKind(event_lists[tid], "PushRange"),
                  CountKind(event_lists[tid], "PopRange"))

\* C11 witness: the pass is over; one stream had more PopRanges than
\* PushRanges and another more PushRanges than PopRanges, and one call was
\* counted.
C11_Witness ==
  /\ pc = "done"
  /\ SumCalls(stats, DOMAIN stats) = 1
  /\ \E t, u \in DOMAIN event_lists :
       /\ CountKind(event_lists[t], "PopRange") > CountKind(event_lists[t], "PushRange")
       /\ CountKind(event_lists[t], "PushRange") > 0
       /\ Cardinality(LogOf(t)) = 1
       /\ CountKind(event_lists[u], "PushRange") > CountKind(event_lists[u], "PopRange")

(***************************************************************************)
(* The report as printed.                                                  *)
(***************************************************************************)
IsRow(line) == line.kind = "row"

RowsOf(o) == SelectSeq(o, IsRow)

Displayed(o) == {RowsOf(o)[i].entry : i \in DOMAIN RowsOf(o)}

Printed == pc = "exit" /\ DOMAIN stats # {}

\* C12: the rows of a report are in non-increasing order of total inclusive
\* time, each row shows the total of its entry, and no entry left out has a
\* total greater than a displayed one; totals A = 100, B = 50, C = 200 are
\* reported in the order C, A, B.
C12_RowsRankedByTotal ==
  Printed =>
    LET rows == RowsOf(out)
    IN /\ rows # << >>
       /\ \A i \in DOMAIN rows :
            /\ rows[i].entry \in DOMAIN stats
            /\ rows[i].total_us = stats[rows[i].entry].total_us
            /\ \A j \in DOMAIN rows : i < j => rows[i].total_us >= rows[j].total_us
            /\ \A n \in DOMAIN stats \ Displayed(out) :
                 stats[n].total_us <= rows[i].total_us
       /\ stats = P6Map =>
            [i \in DOMAIN rows |-> rows[i].entry] = <<"C", "A", "B">>

\* C12 witness: a map of more than 30 entries was printed, the entries left
\* out having smaller totals than the last row, and the first row is not the
\* entry of the smallest name index.
C12_Witness ==
  /\ Printed
  /\ Cardinality(DOMAIN stats) > RowLimit
  /\ DOMAIN stats \ Displayed(out) # {}
  /\ \A n \in DOMAIN stats \ Displayed(out) :
       stats[n].total_us < RowsOf(out)[Len(RowsOf(out))].total_us
  /\ RowsOf(out)[1].entry = ReportName(Cardinality(DOMAIN stats))

\* The map of the ranking example is one the report is printed for.
C12_P6Reached == Printed /\ stats = P6Map

RECURSIVE SumSelfOver(_, _)
\* The total exclusive time of the entries S of the map st.
SumSelfOver(st, S) ==
  IF S = {} THEN 0
  ELSE LET n == CHOOSE x \in S : TRUE IN st[n].self_us + SumSelfOver(st, S \ {n})

IsTotal(line) == line.kind = "total"

\* C13: the report of a map of n >= 1 entries has min(30, n) rows, no two
\* for the same entry, and ends with one 'Self time total' line giving the
\* total exclusive time of all n entries.
C13_ThirtyRowsTotalOverAll ==
  Printed =>
    LET rows == RowsOf(out)
        n == Cardinality(DOMAIN stats)
    IN /\ Len(rows) = (IF n < 30 THEN n ELSE 30)
       /\ Cardinality(Displayed(out)) = Len(rows)
       /\ Displayed(out) \subseteq DOMAIN stats
       /\ Len(SelectSeq(out, IsTotal)) = 1
       /\ out[Len(out)].kind = "total"
       /\ out[Len(out)].total_time = SumSelfOver(stats, DOMAIN stats)

\* C13 witness: a map of 40 entries was printed in 30 rows, and the total
\* printed is more than the exclusive time of the 30 entries displayed.
C13_Witness ==
  /\ Printed
  /\ Cardinality(DOMAIN stats) = 40
  /\ Len(RowsOf(out)) = 30
  /\ out[Len(out)].total_time > SumSelfOver(stats, Displayed(out))
  /\ SumSelfOver(stats, Displayed(out)) > 0

\* C15 as stated: the rows of a report are fixed by the contents of the map:
\* every order the iteration of the map and the sort can leave gives the
\* rows that were printed.
C15_RowOrderFixedByContents ==
  Printed =>
    \A ordered \in SortedOrders(stats, DOMAIN stats) :
      RowsOf(print_kernel_stats(stats, ordered)) = RowsOf(out)

(***************************************************************************)
(* The report when no span was closed.                                     *)
(***************************************************************************)
NoTableLine(o) == \A i \in DOMAIN o : o[i].kind = "text"

\* The pass has returned and closed no span.
PassClosedNoSpan == pc \in {"done", "exit"} /\ agg_calls = 1 /\ log = << >>

\* C14: the pass on zero streams gives an empty map, and print_kernel_stats
\* on an empty map writes its no-events message and no header, row or total
\* line; and whenever the pass has returned without closing a span the map
\* is empty, and what print_kernel_stats then writes for it is that message
\* alone.
C14_NoEventsReportPath ==
  /\ aggregate_kernel_stats(<< >>, EmptyMap).stats = EmptyMap
  /\ print_kernel_stats(EmptyMap, << >>) = <<Text("No profiler events collected.")>>
  /\ PassClosedNoSpan =>
       /\ stats = EmptyMap
       /\ aggregate_kernel_stats(event_lists, EmptyMap).stats = EmptyMap
       /\ (pc = "exit") =>
            /\ Len(out) = 2
            /\ out[2] = Text("No profiler events collected.")
            /\ NoTableLine(out)

\* C14 witness: main ended after a pass over a stream with a PopRange
\* followed by a PushRange: events of both kinds, no span closed, and the
\* message of print_kernel_stats written.
C14_Witness ==
  /\ PassClosedNoSpan
  /\ pc = "exit"
  /\ \E t \in DOMAIN event_lists :
       /\ CountKind(event_lists[t], "PopRange") > 0
       /\ CountKind(event_lists[t], "PushRange") > 0
  /\ out[Len(out)] = Text("No profiler events collected.")

(***************************************************************************)
(* When main runs the pass.                                                *)
(***************************************************************************)
\* main has returned after a generation loop that ended without an error.
ReturnedAfterGeneration == pc \in {"exit", "write_failed"}

\* C16 as stated: a run of main whose generation ended without an error has
\* called the pass exactly once when it returns, and only after the guard's
\* callback delivered the event lists.
C16_AggregatedExactlyOnce ==
  /\ (agg_calls >= 1) => delivered
  /\ ReturnedAfterGeneration => (agg_calls = 1)

\* Reached: write_tokens threw after the generation loop and the guard, and
\* main returned without calling the pass.
C16_WriteFailedReached == pc = "write_failed" /\ delivered /\ agg_calls = 0

\* Reached: main took the branch of lines 238-240 and returned 0 without
\* calling the pass.
C16_NotCalledReached == pc = "exit" /\ agg_calls = 0 /\ delivered

\* The streams are read and the map is written only within the call of the
\* pass, and the call is made only after the token count was written.
PassOnlyInItsCall ==
  /\ (event_lists' # event_lists) => (pc = "run" /\ agg_calls' = 1)
  /\ (stats' # stats) => (pc = "run" /\ agg_calls' = 1)
  /\ (agg_calls' # agg_calls) => (pc = "written" /\ delivered)

\* What does hold of main: the pass is called at most once, never inside
\* the scope of the guard, and reads all streams within that one call.
AggregatedAtMostOnceAfterCollection ==
  /\ [](/\ agg_calls \in {0, 1}
        /\ (agg_calls = 1) => delivered
        /\ (pc \in {"run", "done"}) => (agg_calls = 1)
        /\ (pc \in {"generate", "loop_done", "collected", "written"}) =>
             (agg_calls = 0 /\ event_lists = << >> /\ stats = EmptyMap))
  /\ [][PassOnlyInItsCall]_vars

(***************************************************************************)
(* Self time on well-formed streams.                                       *)
(***************************************************************************)
\* Every PopRange of evs closes a span and no span is left open.
Balanced(evs) ==
  /\ \A j \in DOMAIN evs : evs[j].kind = "PopRange" => DepthAfter(evs, j - 1) > 0
  /\ DepthAfter(evs, Len(evs)) = 0

NonDecreasing(evs) == \A i, j \in DOMAIN evs : i < j => evs[i].t <= evs[j].t

WellFormed ==
  \A t \in DOMAIN event_lists :
    Balanced(event_lists[t]) /\ NonDecreasing(event_lists[t])

\* The spans opened at stack depth 0.
TopLevel == {k \in DOMAIN log : ~ \E p \in DOMAIN log : Inside(k, p)}

\* C17: when every stream read is balanced and has non-decreasing
\* timestamps, no span's exclusive time was clamped (it is its inclusive
\* time minus its children's time, and its inclusive time is the difference
\* of its timestamps), and the exclusive time of all names together is the
\* inclusive time of the top-level spans of all threads together.
C17_SelfTimeConserved ==
  WellFormed =>
    /\ \A k \in DOMAIN log :
         /\ log[k].inclusive_us =
              cpuElapsedUs(event_lists[log[k].thread][log[k].enter],
                           event_lists[log[k].thread][log[k].exit])
         /\ log[k].exclusive_us = log[k].inclusive_us - log[k].child_time_us
    /\ SumSelfOver(stats, DOMAIN stats) = SumInclusive(TopLevel)

\* C17, one stream reached: a well-formed stream with a span that has two
\* children side by side, one of them of positive length.
C17_SiblingsReached ==
  /\ WellFormed
  /\ \E p \in DOMAIN log : Cardinality(DirectChildren(p)) = 2 /\ log[p].child_time_us > 0

\* C17 witness: two well-formed streams were read, one of them with a span
\* that has a child of positive length; spans of two names were counted and
\* the exclusive time of all names is positive and less than the inclusive
\* time of all spans.
C17_Witness ==
  /\ WellFormed
  /\ Len(event_lists) = 2
  /\ LogOf(1) # {} /\ LogOf(2) # {}
  /\ \E p \in DOMAIN log : DirectChildren(p) # {} /\ log[p].child_time_us > 0
  /\ Cardinality(DOMAIN stats) = 2
  /\ SumSelfOver(stats, DOMAIN stats) > 0
  /\ SumSelfOver(stats, DOMAIN stats) < SumInclusive(DOMAIN log)

(***************************************************************************)
(* The counters of one entry against each other.                           *)
(***************************************************************************)
\* C18: in every state of the pass every entry has total exclusive time at
\* most total inclusive time, and max inclusive <= total inclusive <=
\* calls * max inclusive, so that the average printed for it is at most the
\* maximum printed for it.
C18_EntryCountersOrdered ==
  \A n \in DOMAIN stats :
    /\ stats[n].self_us <= stats[n].total_us
    /\ stats[n].max_us <= stats[n].total_us
    /\ stats[n].total_us <= stats[n].calls * stats[n].max_us
    /\ AvgUs(stats[n]).num <= stats[n].max_us * AvgUs(stats[n]).den

\* C18 witness: an entry was called twice with different inclusive times,
\* one of its spans had a child, and another span was clamped to 0.
C18_Witness ==
  /\ \E n \in DOMAIN stats :
       /\ stats[n].calls = 2
       /\ 0 < stats[n].self_us /\ stats[n].self_us < stats[n].total_us
       /\ stats[n].max_us < stats[n].total_us
       /\ stats[n].total_us < stats[n].calls * stats[n].max_us
  /\ \E k \in DOMAIN log :
       log[k].exclusive_us = 0 /\ log[k].child_time_us > log[k].inclusive_us

(***************************************************************************)
(* The generation loop.                                                    *)
(***************************************************************************)
\* The tokens the loop has appended to the prompt.
Generated == SubSeq(prompt_tokens, Len(loaded) + 1, Len(prompt_tokens))

\* The loop was left by its condition or its break, not by an exception.
LoopEnded == pc \in {"loop_done", "collected"}

GenerationLoopSafe ==
  /\ Len(prompt_tokens) >= Len(loaded)
  /\ SubSeq(prompt_tokens, 1, Len(loaded)) = loaded
  /\ Len(Generated) <= Max(0, max_new_tokens)
  /\ (pc = "generate") => (Len(Generated) = step)
  /\ (eos_token >= 0) =>
       /\ \A i \in 1..(Len(Generated) - 1) : Generated[i] # eos_token
       /\ (pc = "generate") => (\A i \in DOMAIN Generated : Generated[i] # eos_token)
  /\ LoopEnded =>
       /\ (eos_token < 0) => (Len(Generated) = Max(0, max_new_tokens))
       /\ (max_new_tokens <= 0) => (Generated = << >>)
       /\ (Len(Generated) < max_new_tokens) =>
            (eos_token >= 0 /\ Generated[Len(Generated)] = eos_token)

\* One step of the loop appends one token and changes no token written
\* before.
OneTokenPerStep ==
  (prompt_tokens' # prompt_tokens) =>
    /\ pc = "generate"
    /\ Len(prompt_tokens') = Len(prompt_tokens) + 1
    /\ SubSeq(prompt_tokens', 1, Len(prompt_tokens)) = prompt_tokens

\* C19: the generation loop ends, after at most max_new_tokens steps, each
\* of which appended one token after the tokens already there, the prompt
\* first; with eos_token >= 0 no token generated before the last one is
\* eos_token, and a loop that ended before max_new_tokens steps ended on a
\* generated eos_token; with eos_token < 0 a loop that ended without an
\* exception appended max_new_tokens tokens, and none when max_new_tokens
\* is 0 or less.
C19_GenerationLoopBounded ==
  /\ []GenerationLoopSafe
  /\ [][OneTokenPerStep]_vars
  /\ <>(pc # "generate")

\* C19 witness: the prompt holds the token eos_token; the loop generated
\* other tokens and then eos_token, and ended there with steps to spare.
C19_Witness ==
  /\ LoopEnded
  /\ eos_token >= 0
  /\ \E i \in DOMAIN loaded : loaded[i] = eos_token
  /\ Len(Generated) = 2
  /\ Generated[2] = eos_token
  /\ Len(Generated) < max_new_tokens

\* C19, other cases reached: with eos_token < 0 the loop appended
\* MaxNewTokens tokens; with max_new_tokens < 0 it appended none.
C19_AllStepsReached ==
  LoopEnded /\ eos_token < 0 /\ max_new_tokens = MaxNewTokens
  /\ Len(Generated) = MaxNewTokens

C19_NoStepReached == LoopEnded /\ max_new_tokens < 0 /\ Generated = << >>

====
